---- MODULE Spec2Model ----
(***************************************************************************)
(* Money-weighted return (src/src/mwr.py) and time-weighted return         *)
(* (src/src/twr.py).                                                       *)
(*                                                                         *)
(* Floats are modelled as exact rationals [n, d] in lowest terms with      *)
(* d > 0; NaN is the record with d = 0.  Dates are day numbers that lie    *)
(* whole years apart, so that every discount factor (1+r)^t has an         *)
(* integer exponent.  A rate is kept symbolically: kind "pow" stands for   *)
(* r = base^exp - 1, kind "root" for a root of the discounted sum of the   *)
(* vector it carries, kind "lo" / "hi" for the two ends of the bracket.    *)
(***************************************************************************)
EXTENDS Integers, Sequences, FiniteSets

\* ------------------------------------------------------------------ bounds
MaxLen == 3
MaxGap == 2

NavValues == {1, 4}
AumValues == {100, 110}
FlowValues == {-10, 0, 10}
CashValues == {-250, -100, 0, 110, 300}

\* ------------------------------------------------------- float arithmetic
NaN == [n |-> 0, d |-> 0]

Abs(x) == IF x < 0 THEN -x ELSE x

RECURSIVE GCD(_, _)
GCD(a, b) == IF b = 0 THEN a ELSE GCD(b, a % b)

Lcm(a, b) == (a \div GCD(a, b)) * b

IsNaN(x) == x.d = 0

Norm(n, d) ==
  IF d = 0 THEN NaN
  ELSE LET g == GCD(Abs(n), Abs(d))
           s == IF d < 0 THEN -1 ELSE 1
       IN [n |-> (s * n) \div g, d |-> (s * d) \div g]

Rat(k) == [n |-> k, d |-> 1]

Neg(x) == IF IsNaN(x) THEN NaN ELSE [n |-> -x.n, d |-> x.d]

Add(x, y) ==
  IF IsNaN(x) \/ IsNaN(y) THEN NaN
  ELSE LET l == Lcm(x.d, y.d)
       IN Norm(x.n * (l \div x.d) + y.n * (l \div y.d), l)

Sub(x, y) == Add(x, Neg(y))

Mul(x, y) ==
  IF IsNaN(x) \/ IsNaN(y) THEN NaN
  ELSE LET a == Norm(x.n, y.d)
           b == Norm(y.n, x.d)
       IN [n |-> a.n * b.n, d |-> a.d * b.d]

\* x / y; the divisors of this program are input values, which are nonzero
Div(x, y) ==
  IF IsNaN(x) \/ IsNaN(y) \/ y.n = 0 THEN NaN
  ELSE Mul(x, Norm(y.d, y.n))

\* comparisons with NaN are false, as in IEEE 754
Lt(x, y) == ~IsNaN(x) /\ ~IsNaN(y) /\ x.n * y.d < y.n * x.d
Ge(x, y) == ~IsNaN(x) /\ ~IsNaN(y) /\ x.n * y.d >= y.n * x.d
NeZero(x) == IsNaN(x) \/ x.n # 0

RAbs(x) == IF IsNaN(x) THEN NaN ELSE [n |-> Abs(x.n), d |-> x.d]

Sign(k) == IF k > 0 THEN 1 ELSE IF k < 0 THEN -1 ELSE 0

\* ------------------------------------------------------------ pandas ops
None == <<>>

\* Series.pct_change(): s[k]/s[k-1] - 1, NaN at the first position
pct_change(s) ==
  [k \in 1..Len(s) |-> IF k = 1 THEN NaN ELSE Sub(Div(s[k], s[k - 1]), Rat(1))]

\* Series.shift(1)
shift(s) == [k \in 1..Len(s) |-> IF k = 1 THEN NaN ELSE s[k - 1]]

\* mutant: only the lower limit is applied
clip_LowerOnly(x, lo, hi) == IF IsNaN(x) THEN NaN ELSE IF Lt(x, lo) THEN lo ELSE x

\* Series.clip(lo, hi): NaN stays NaN
clip(x, lo, hi) ==
  IF IsNaN(x) THEN NaN
  ELSE IF Lt(x, lo) THEN lo
  ELSE IF Lt(hi, x) THEN hi
  ELSE x

\* Series.min() / Series.max(): NaN entries are skipped, NaN when nothing is left
RECURSIVE SeriesMin(_)
SeriesMin(s) ==
  IF s = <<>> THEN NaN
  ELSE LET r == SeriesMin(Tail(s))
           h == Head(s).amt
       IN IF IsNaN(h) THEN r
          ELSE IF IsNaN(r) THEN h
          ELSE IF Lt(h, r) THEN h ELSE r

RECURSIVE SeriesMax(_)
SeriesMax(s) ==
  IF s = <<>> THEN NaN
  ELSE LET r == SeriesMax(Tail(s))
           h == Head(s).amt
       IN IF IsNaN(h) THEN r
          ELSE IF IsNaN(r) THEN h
          ELSE IF Lt(r, h) THEN h ELSE r

\* -------------------------------------------------------- _estimate_flows
\* mutant: the weight is applied to the current AUM, not the previous one
_estimate_flows_NoShift(nv, am) ==
  LET fw == [k \in 1..Len(am) |-> Sub(pct_change(am)[k], pct_change(nv)[k])]
  IN [amount |-> [k \in 1..Len(am) |-> Mul(fw[k], am[k])], weight |-> fw]

_estimate_flows(nv, am) ==
  LET returns_nav == pct_change(nv)
      returns_aum == pct_change(am)
      fw == [k \in 1..Len(am) |-> Sub(returns_aum[k], returns_nav[k])]
      sh == shift(am)
      fa == [k \in 1..Len(am) |-> Mul(fw[k], sh[k])]
  IN [amount |-> fa, weight |-> fw]

\* --------------------------------------- money_weighted_return_annualized
\* mutant: the terminal AUM overwrites the last flow instead of adding to it
BuildCashflows_Overwrite(am, fl, dt) ==
  [k \in 1..Len(fl) |->
     [amt |-> IF k = 1 THEN Neg(am[1])
              ELSE IF k = Len(fl) THEN am[Len(am)] ELSE Neg(fl[k]),
      day |-> dt[k]]]

\* mutant: the first entry keeps the negated flow instead of -aum[0]
BuildCashflows_KeepFirst(am, fl, dt) ==
  [k \in 1..Len(fl) |->
     [amt |-> IF k = Len(fl) THEN Add(Neg(fl[k]), am[Len(am)]) ELSE Neg(fl[k]),
      day |-> dt[k]]]

\* the cash-flow series handed to _xirr, on the date index of the flows
BuildCashflows(am, fl, dt) ==
  LET n == Len(fl)
      neg == [k \in 1..n |-> Neg(fl[k])]
      first == [neg EXCEPT ![1] = Neg(am[1])]
      last == [first EXCEPT ![n] = Add(first[n], am[Len(am)])]
  IN [k \in 1..n |-> [amt |-> last[k], day |-> dt[k]]]

\* ------------------------------------------------------------------ _xirr
\* cashflows[cashflows != 0]
CleanValues(cf) == SelectSeq(cf, LAMBDA e : NeZero(e.amt))

\* cashflows.min() * cashflows.max() >= 0
NoSignChange(cf) == Ge(Mul(SeriesMin(cf), SeriesMax(cf)), Rat(0))

\* (index - index.min()).days / 365.0, for dates whole years apart
YearOf(cf, k) == (cf[k].day - cf[1].day) \div 365

BracketHi == 100

RECURSIVE DenLcm(_)
DenLcm(cf) ==
  IF cf = <<>> THEN 1
  ELSE LET h == Head(cf).amt
       IN IF IsNaN(h) THEN DenLcm(Tail(cf)) ELSE Lcm(h.d, DenLcm(Tail(cf)))

\* the amounts as integers on their common denominator (NaN is skipped by sum())
Scaled(cf) ==
  LET l == DenLcm(cf)
  IN [k \in 1..Len(cf) |->
        IF IsNaN(cf[k].amt) THEN 0 ELSE cf[k].amt.n * (l \div cf[k].amt.d)]

RECURSIVE SumAbs(_)
SumAbs(s) == IF s = <<>> THEN 0 ELSE Abs(Head(s)) + SumAbs(Tail(s))

CoefAt(cf, y) ==
  LET sc == Scaled(cf)
      ks == {k \in 1..Len(cf) : YearOf(cf, k) = y}
  IN IF ks = {} THEN 0 ELSE sc[CHOOSE k \in ks : TRUE]

\* Horner evaluation of sum c[i] * (1+b)^(T - t[i]); an accumulator beyond the
\* sum of all coefficients can no longer change sign and is held there
RECURSIVE HornerHi(_, _, _, _)
HornerHi(cf, y, acc, cap) ==
  IF y > YearOf(cf, Len(cf)) THEN acc
  ELSE LET v == acc * (1 + BracketHi) + CoefAt(cf, y)
           w == IF v > cap THEN cap ELSE IF v < -cap THEN -cap ELSE v
       IN HornerHi(cf, y + 1, w, cap)

\* sign of f(b), b = 100
SignAtHi(cf) ==
  IF cf = <<>> THEN 0
  ELSE Sign(HornerHi(cf, 0, 0, SumAbs(Scaled(cf)) + 1))

\* sign of f(a), a = -0.999999999999999: 1/(1+a)^t is 10^(15 t), so the
\* latest nonzero amount outweighs all earlier ones
SignAtLo(cf) ==
  IF cf = <<>> THEN 0
  ELSE LET h == cf[Len(cf)].amt IN IF IsNaN(h) THEN 0 ELSE Sign(h.n)

NoRate == [kind |-> "none", base |-> NaN, exp |-> NaN, of |-> <<>>]
NanRate == [kind |-> "nan", base |-> NaN, exp |-> NaN, of |-> <<>>]
LoRate == [kind |-> "lo", base |-> NaN, exp |-> NaN, of |-> <<>>]
HiRate == [kind |-> "hi", base |-> NaN, exp |-> NaN, of |-> <<>>]
PowRate(b, e) == [kind |-> "pow", base |-> b, exp |-> e, of |-> <<>>]

\* the rate r > -1 with sum c[i] / (1+r)^t[i] = 0: for two amounts it is
\* (-c2/c1)^(1/t2) - 1, otherwise it is kept as "a root of this vector"
RootOf(cf) ==
  IF Len(cf) = 2
  THEN PowRate(Neg(Div(cf[2].amt, cf[1].amt)), Norm(365, cf[2].day - cf[1].day))
  ELSE [kind |-> "root", base |-> NaN, exp |-> NaN, of |-> cf]

\* optimize.newton(f, x0=0, rtol=1e-4), secant iteration: the value it returns
\* when it returns.  On a constant f (no amounts left) the two starting
\* points 0 and 1e-4 give equal values and the midpoint 5e-5 is returned
NewtonValue(cf) ==
  IF cf = <<>> THEN PowRate(Norm(20001, 20000), Rat(1)) ELSE RootOf(cf)

\* optimize.brentq(f, a, b): an end of the bracket where f is zero, a
\* ValueError when f has the same sign at both ends, else the root inside
BrentqRaises(cf) == SignAtLo(cf) # 0 /\ SignAtHi(cf) # 0 /\ SignAtLo(cf) = SignAtHi(cf)

BrentqValue(cf) ==
  IF SignAtLo(cf) = 0 THEN LoRate
  ELSE IF SignAtHi(cf) = 0 THEN HiRate
  ELSE RootOf(cf)

\* ------------------------------------------- time_weighted_return_annualized
time_weighted_return_annualized(nv, dt) ==
  LET days == dt[Len(dt)] - dt[1]
      annual_factor == Norm(365, days)
  IN PowRate(Div(nv[Len(nv)], nv[1]), annual_factor)

\* ------------------------------------------------------------------ state
VARIABLES
  op,                \* the entry point that was called
  pc,                \* position in the call
  nav, aum, dates,   \* the input series (values, and their common date index)
  flows,             \* the flows argument of money_weighted_return_annualized
  max_flows_weight,  \* the argument (its absolute value is taken where it is used)
  flows_weight,      \* the clipped weights of the simulation
  flows_amount,      \* flows_amount / flows_amount_inv
  aum_sim,           \* the copy of aum the simulation rewrites (aum / aum_inv)
  i,                 \* loop index of the simulation (1-based)
  cashflows,         \* the series _xirr works on
  solver,            \* which root finders _xirr has called
  xirr_result,       \* what _xirr returns
  result,            \* what the entry point returns
  raised             \* the exception that reached the caller

vars == <<op, pc, nav, aum, dates, flows, max_flows_weight, flows_weight,
          flows_amount, aum_sim, i, cashflows, solver, xirr_result, result, raised>>

Series(n, S) == [1..n -> {Rat(v) : v \in S}]

DateIndex(n, g) == [k \in 1..n |-> 365 * g * (k - 1)]

Weights == {Rat(0), Norm(3, 10), Norm(-3, 10), Rat(1), Rat(4)}

Init ==
  /\ pc = "start"
  /\ flows_weight = <<>>
  /\ flows_amount = <<>>
  /\ aum_sim = <<>>
  /\ i = 0
  /\ solver = {}
  /\ xirr_result = NoRate
  /\ result = NoRate
  /\ raised = "none"
  /\ \E n \in 2..MaxLen, g \in 1..MaxGap :
       /\ dates = DateIndex(n, g)
       /\ \/ /\ op = "mwr"
             /\ nav \in Series(n, NavValues)
             /\ aum \in Series(n, AumValues)
             /\ flows \in {None} \cup Series(n, FlowValues)
             /\ max_flows_weight = NaN
             /\ cashflows = <<>>
          \/ /\ op \in {"theoretical", "inverted"}
             /\ nav \in Series(n, NavValues)
             /\ aum \in Series(n, AumValues)
             /\ flows = None
             /\ max_flows_weight \in Weights
             /\ cashflows = <<>>
          \/ /\ op = "twr"
             /\ nav \in Series(n, NavValues)
             /\ aum = <<>>
             /\ flows = None
             /\ max_flows_weight = NaN
             /\ cashflows = <<>>
          \/ /\ op = "xirr"
             /\ nav = <<>>
             /\ aum = <<>>
             /\ flows = None
             /\ max_flows_weight = NaN
             /\ \E c \in [1..n -> CashValues] :
                  cashflows = [k \in 1..n |-> [amt |-> Rat(c[k]), day |-> dates[k]]]

\* ---------------------------------------------------------------- actions
\* theoretical_mwr_annualized / ..._with_inverted_flows, up to the loop
SimulationSetup ==
  /\ pc = "start"
  /\ op \in {"theoretical", "inverted"}
  /\ LET mfw == RAbs(max_flows_weight)
         est == _estimate_flows(nav, aum)
     IN /\ flows_weight' = [k \in 1..Len(aum) |-> clip(est.weight[k], Neg(mfw), mfw)]
        /\ flows_amount' = est.amount
        /\ aum_sim' = aum
  /\ i' = 2
  /\ pc' = "loop"
  /\ UNCHANGED <<op, nav, aum, dates, flows, max_flows_weight, cashflows, solver, xirr_result, result, raised>>

\* mutant: the inverted variant does not invert
StepFlow_NoInvert(o, w, prev) == Mul(w, prev)

\* the flow of step k under the policy of the entry point
StepFlow(o, w, prev) ==
  IF o = "inverted" THEN Mul(Mul(w, prev), Rat(-1)) ELSE Mul(w, prev)

\* mutant: the NAV return without the added 1.0
nav_returns_NoAdd(nv) == pct_change(nv)

\* nav.pct_change().add(1.0)
nav_returns(nv) == [k \in 1..Len(nv) |-> Add(pct_change(nv)[k], Rat(1))]

\* one iteration of the simulation loop
SimulationStep ==
  /\ pc = "loop"
  /\ i <= Len(aum_sim)
  /\ LET f == StepFlow(op, flows_weight[i], aum_sim[i - 1])
     IN /\ flows_amount' = [flows_amount EXCEPT ![i] = f]
        /\ aum_sim' = [aum_sim EXCEPT ![i] = Add(Mul(aum_sim[i - 1], nav_returns(nav)[i]), f)]
  /\ i' = i + 1
  /\ UNCHANGED <<op, pc, nav, aum, dates, flows, max_flows_weight, flows_weight,
                 cashflows, solver, xirr_result, result, raised>>

\* money_weighted_return_annualized(nav, aum_sim, flows_amount) after the loop
SimulationCall ==
  /\ pc = "loop"
  /\ i > Len(aum_sim)
  /\ cashflows' = BuildCashflows(aum_sim, flows_amount, dates)
  /\ pc' = "xirr"
  /\ UNCHANGED <<op, nav, aum, dates, flows, max_flows_weight, flows_weight,
                 flows_amount, aum_sim, i, solver, xirr_result, result, raised>>

\* money_weighted_return_annualized(nav, aum, flows) called directly
MoneyWeightedReturn ==
  /\ pc = "start"
  /\ op = "mwr"
  /\ LET fl == IF flows = None THEN _estimate_flows(nav, aum).amount ELSE flows
     IN cashflows' = BuildCashflows(aum, fl, dates)
  /\ pc' = "xirr"
  /\ UNCHANGED <<op, nav, aum, dates, flows, max_flows_weight, flows_weight,
                 flows_amount, aum_sim, i, solver, xirr_result, result, raised>>

\* _xirr called directly
XirrCall ==
  /\ pc = "start"
  /\ op = "xirr"
  /\ pc' = "xirr"
  /\ UNCHANGED <<op, nav, aum, dates, flows, max_flows_weight, flows_weight,
                 flows_amount, aum_sim, i, cashflows, solver, xirr_result, result, raised>>

\* _xirr: clean the values, check for a sign change
XirrCheck ==
  /\ pc = "xirr"
  /\ cashflows' = CleanValues(cashflows)
  /\ IF NoSignChange(CleanValues(cashflows))
     THEN xirr_result' = NanRate /\ pc' = "return"
     ELSE xirr_result' = xirr_result /\ pc' = "newton"
  /\ UNCHANGED <<op, nav, aum, dates, flows, max_flows_weight, flows_weight,
                 flows_amount, aum_sim, i, solver, result, raised>>

\* _xirr: optimize.newton either returns or raises RuntimeError
Newton ==
  /\ pc = "newton"
  /\ solver' = solver \cup {"newton"}
  /\ \/ xirr_result' = NewtonValue(cashflows) /\ pc' = "return"
     \/ xirr_result' = xirr_result /\ pc' = "brentq"
  /\ UNCHANGED <<op, nav, aum, dates, flows, max_flows_weight, flows_weight,
                 flows_amount, aum_sim, i, cashflows, result, raised>>

\* _xirr: the except branch, optimize.brentq
Brentq ==
  /\ pc = "brentq"
  /\ solver' = solver \cup {"brentq"}
  /\ IF BrentqRaises(cashflows)
     THEN raised' = "ValueError" /\ xirr_result' = xirr_result /\ pc' = "done"
     ELSE raised' = raised /\ xirr_result' = BrentqValue(cashflows) /\ pc' = "return"
  /\ UNCHANGED <<op, nav, aum, dates, flows, max_flows_weight, flows_weight,
                 flows_amount, aum_sim, i, cashflows, result>>

\* _xirr returns (NaN for a complex result) and its caller returns that value
Return ==
  /\ pc = "return"
  /\ result' = IF xirr_result.kind = "complex" THEN NanRate ELSE xirr_result
  /\ pc' = "done"
  /\ UNCHANGED <<op, nav, aum, dates, flows, max_flows_weight, flows_weight,
                 flows_amount, aum_sim, i, cashflows, solver, xirr_result, raised>>

\* time_weighted_return_annualized(nav)
TimeWeightedReturn ==
  /\ pc = "start"
  /\ op = "twr"
  /\ result' = time_weighted_return_annualized(nav, dates)
  /\ pc' = "done"
  /\ UNCHANGED <<op, nav, aum, dates, flows, max_flows_weight, flows_weight,
                 flows_amount, aum_sim, i, cashflows, solver, xirr_result, raised>>

Next ==
  \/ SimulationSetup
  \/ SimulationStep
  \/ SimulationCall
  \/ MoneyWeightedReturn
  \/ XirrCall
  \/ XirrCheck
  \/ Newton
  \/ Brentq
  \/ Return
  \/ TimeWeightedReturn

Spec == Init /\ [][Next]_vars

\* ------------------------------------------------------------- properties
N == Len(dates)

Estimated == op \in {"theoretical", "inverted"} \/ (op = "mwr" /\ flows = None)

\* the flow weight and amount of step k written out on the integer inputs:
\* aum[k]/aum[k-1] - nav[k]/nav[k-1], and aum[k] - aum[k-1]*nav[k]/nav[k-1]
WeightAt(k) ==
  Norm(aum[k].n * nav[k - 1].n - nav[k].n * aum[k - 1].n, aum[k - 1].n * nav[k - 1].n)

AmountAt(k) == Norm(aum[k].n * nav[k - 1].n - aum[k - 1].n * nav[k].n, nav[k - 1].n)

AmountsOf(cf) == [k \in 1..Len(cf) |-> cf[k].amt]
DaysOf(cf) == [k \in 1..Len(cf) |-> cf[k].day]

\* C1: with explicit flows, money_weighted_return_annualized hands _xirr the
\* vector c[0] = -aum[0], c[i] = -flows[i] in between, c[n-1] = -flows[n-1] +
\* aum[n-1], on the dates of the flows, and returns what _xirr returns.
C1_CashflowVector ==
  (op = "mwr" /\ flows # None) =>
    /\ pc = "xirr" =>
         /\ Len(cashflows) = N
         /\ DaysOf(cashflows) = dates
         /\ cashflows[1].amt = Rat(-aum[1].n)
         /\ \A k \in 2..(N - 1) : cashflows[k].amt = Rat(-flows[k].n)
         /\ cashflows[N].amt = Rat(-flows[N].n + aum[N].n)
    /\ (pc = "done" /\ raised = "none") => (result = xirr_result /\ result # NoRate)

C1_Witness ==
  /\ op = "mwr" /\ flows # None /\ pc = "done" /\ raised = "none"
  /\ flows[1].n # 0 /\ flows[N].n # 0 /\ N >= 3
  /\ result.kind = "root"

\* C2: _xirr returns NaN without calling a root finder whenever the vector,
\* zeros removed, has no sign change: all positive, all negative, or empty.
C2_NoSignChangeIsNaN ==
  ( /\ op # "twr"
    /\ pc \in {"newton", "brentq", "return", "done"}
    /\ \/ \A k \in 1..Len(cashflows) : cashflows[k].amt.n > 0
       \/ \A k \in 1..Len(cashflows) : cashflows[k].amt.n < 0 )
  => (solver = {} /\ xirr_result = NanRate /\ raised = "none")

\* C3: _estimate_flows returns series of the input length with, for t >= 1,
\* flows_weight[t] = aum[t]/aum[t-1] - nav[t]/nav[t-1] and flows_amount[t] =
\* flows_weight[t] * aum[t-1] = aum[t] - aum[t-1]*nav[t]/nav[t-1]; index 0 is
\* NaN and reaches no consumer: the vector handed to _xirr holds no NaN.
C3_EstimateFlows ==
  (Estimated /\ pc # "start") =>
    LET est == _estimate_flows(nav, aum)
    IN /\ Len(est.amount) = N /\ Len(est.weight) = N
       /\ IsNaN(est.amount[1]) /\ IsNaN(est.weight[1])
       /\ \A t \in 2..N :
            /\ est.weight[t] = WeightAt(t)
            /\ est.amount[t] = AmountAt(t)
            /\ est.amount[t] = Mul(WeightAt(t), aum[t - 1])
       /\ (pc = "loop" /\ i = 2) => flows_amount = est.amount
       /\ (op = "mwr" /\ pc = "xirr") =>
            \A t \in 2..N : cashflows[t].amt =
               IF t = N THEN Add(Neg(AmountAt(t)), aum[N]) ELSE Neg(AmountAt(t))
       /\ pc = "xirr" =>
            /\ \A k \in 1..N : ~IsNaN(cashflows[k].amt)
            /\ cashflows[1].amt = Rat(-aum[1].n)

C3_Witness ==
  /\ op = "mwr" /\ flows = None /\ pc = "xirr" /\ N >= 3
  /\ \A t \in 2..N : AmountAt(t).n # 0
  /\ \E t \in 2..N : AmountAt(t).d # 1

\* the simulation written as a recurrence on the inputs alone
ClippedWeightAt(k) ==
  LET m == [n |-> Abs(max_flows_weight.n), d |-> max_flows_weight.d]
      w == WeightAt(k)
  IN IF w.n * m.d < -m.n * w.d THEN Neg(m)
     ELSE IF w.n * m.d > m.n * w.d THEN m
     ELSE w

PolicySign == IF op = "inverted" THEN -1 ELSE 1

RECURSIVE ExpectedAum(_)
ExpectedAum(k) ==
  IF k = 1 THEN aum[1]
  ELSE LET p == ExpectedAum(k - 1)
       IN Add(Mul(p, Norm(nav[k].n, nav[k - 1].n)),
              Mul(Mul(Rat(PolicySign), ClippedWeightAt(k)), p))

ExpectedFlow(k) == Mul(Mul(Rat(PolicySign), ClippedWeightAt(k)), ExpectedAum(k - 1))

\* C4: both variants start from aum_sim[0] = aum[0] and build, in increasing
\* index order, flow_sim[i] = s * clip(w[i], -|m|, |m|) * aum_sim[i-1] and
\* aum_sim[i] = aum_sim[i-1] * nav[i]/nav[i-1] + flow_sim[i], w estimated once
\* from the original aum, s = -1 for the inverted variant; the pair is then
\* passed as explicit flows to money_weighted_return_annualized.
C4_Simulation ==
  (op \in {"theoretical", "inverted"}) =>
    /\ pc = "loop" =>
         /\ aum_sim[1] = aum[1]
         /\ \A k \in 2..N :
              IF k < i
              THEN aum_sim[k] = ExpectedAum(k) /\ flows_amount[k] = ExpectedFlow(k)
              ELSE aum_sim[k] = aum[k] /\ flows_amount[k] = AmountAt(k)
    /\ pc = "xirr" =>
         /\ DaysOf(cashflows) = dates
         /\ cashflows[1].amt = Neg(aum[1])
         /\ \A k \in 2..(N - 1) : cashflows[k].amt = Neg(ExpectedFlow(k))
         /\ cashflows[N].amt = Add(Neg(ExpectedFlow(N)), ExpectedAum(N))

C4_Witness ==
  /\ op = "inverted" /\ pc = "xirr" /\ N >= 3
  /\ max_flows_weight.n < 0
  /\ \E k \in 2..N : ClippedWeightAt(k) # WeightAt(k)
  /\ \E k \in 2..N : ClippedWeightAt(k) = WeightAt(k) /\ WeightAt(k).n # 0

\* C5: _xirr never raises to its caller; when the first stage fails and the
\* bracketing fallback cannot produce a root either, it returns NaN.
C5_NeverRaises ==
  /\ raised = "none"
  /\ (pc = "done" /\ "brentq" \in solver /\ BrentqRaises(cashflows)) => result = NanRate

\* the two-point case of C6: dates one year apart, constant NAV, AUM 100 -> 110
C6_Case ==
  /\ op = "mwr" /\ N = 2 /\ dates = <<0, 365>>
  /\ nav[1] = nav[2]
  /\ aum = <<Rat(100), Rat(110)>>
  /\ pc = "done"

\* C6 as stated: for that case, flows estimated or given as zero, the vector
\* solved is [-100, +110] and the rate returned is 0.10.
C6_TwoPointIsTenPercent ==
  (C6_Case /\ (flows = None \/ flows[2].n = 0)) =>
    /\ AmountsOf(cashflows) = <<Rat(-100), Rat(110)>>
    /\ result = PowRate(Norm(11, 10), Rat(1))

\* C6 amended: with the flows passed explicitly and zero at t1 the vector is
\* [-100, +110] and the rate 0.10; with the flows estimated, the 10 of AUM growth
\* at constant NAV is an inflow, the vector is [-100, +100] and the rate is 0.
C6_TwoPointExplicitFlows ==
  C6_Case =>
    /\ raised = "none"
    /\ (flows # None /\ flows[2].n = 0) =>
         /\ AmountsOf(cashflows) = <<Rat(-100), Rat(110)>>
         /\ result = PowRate(Norm(11, 10), Rat(1))
    /\ flows = None =>
         /\ AmountsOf(cashflows) = <<Rat(-100), Rat(100)>>
         /\ result = PowRate(Rat(1), Rat(1))

C6_Witness ==
  /\ C6_Case /\ flows # None /\ flows[1].n # 0 /\ flows[2].n = 0
  /\ "brentq" \in solver
  /\ result = PowRate(Norm(11, 10), Rat(1))

\* C7: with max_flows_weight = 0, theoretical_mwr_annualized simulates
\* flow_sim[i] = 0 and aum_sim[i] = aum[0]*nav[i]/nav[0]; the vector solved is
\* -aum[0] at the first date and aum[0]*nav[n-1]/nav[0] at the last, and its
\* root is time_weighted_return_annualized(nav).
C7_ZeroWeightIsTWR ==
  (op = "theoretical" /\ max_flows_weight = Rat(0)) =>
    /\ pc = "loop" =>
         \A k \in 2..(i - 1) :
           /\ flows_amount[k] = Rat(0)
           /\ aum_sim[k] = Norm(aum[1].n * nav[k].n, nav[1].n)
    /\ pc \in {"newton", "brentq", "return", "done"} =>
         /\ cashflows = << [amt |-> Rat(-aum[1].n), day |-> dates[1]],
                           [amt |-> Norm(aum[1].n * nav[N].n, nav[1].n), day |-> dates[N]] >>
         /\ RootOf(cashflows) = time_weighted_return_annualized(nav, dates)
    /\ pc = "done" =>
         /\ raised = "none"
         /\ result = time_weighted_return_annualized(nav, dates)

C7_Witness ==
  /\ op = "theoretical" /\ max_flows_weight = Rat(0) /\ pc = "done" /\ N >= 3
  /\ \E k \in 2..N : WeightAt(k).n # 0
  /\ nav[N] # nav[1]
  /\ result.kind = "pow" /\ result.exp # Rat(1)

\* C8: a vector that passes the sign-change check has f of opposite signs at
\* the two ends of the fallback bracket, a = -0.999999999999999 and b = 100.
C8_BracketAlwaysValid ==
  ( /\ pc \in {"newton", "brentq"}
    /\ \E k \in 1..Len(cashflows) : cashflows[k].amt.n > 0
    /\ \E k \in 1..Len(cashflows) : cashflows[k].amt.n < 0 )
  => SignAtLo(cashflows) * SignAtHi(cashflows) = -1

\* C9: in the inverted variant, with |max_flows_weight| <= 1, the simulated
\* AUM is non-negative after every iteration of the loop.
C9_InvertedAumNonNegative ==
  ( /\ op = "inverted" /\ pc = "loop"
    /\ Abs(max_flows_weight.n) <= max_flows_weight.d )
  => \A k \in 2..(i - 1) : aum_sim[k].n >= 0

\* no weight is clipped: |flows_weight[k]| <= |max_flows_weight| at every step
NothingClipped ==
  \A k \in 2..N :
    Abs(WeightAt(k).n) * max_flows_weight.d <= Abs(max_flows_weight.n) * WeightAt(k).d

\* C10: when clipping changes nothing, theoretical_mwr_annualized rebuilds the
\* original series (aum_sim[i] = aum[i], flow_sim[i] = the estimated amount) and
\* solves the vector money_weighted_return_annualized(nav, aum) solves.
C10_UnclippedRoundTrip ==
  (op = "theoretical" /\ NothingClipped) =>
    /\ pc = "loop" =>
         \A k \in 2..(i - 1) : aum_sim[k] = aum[k] /\ flows_amount[k] = AmountAt(k)
    /\ pc = "xirr" =>
         /\ DaysOf(cashflows) = dates
         /\ cashflows[1].amt = Rat(-aum[1].n)
         /\ \A k \in 2..(N - 1) : cashflows[k].amt = Neg(AmountAt(k))
         /\ cashflows[N].amt = Add(Neg(AmountAt(N)), aum[N])

C10_Witness ==
  /\ op = "theoretical" /\ NothingClipped /\ pc = "xirr" /\ N >= 3
  /\ max_flows_weight = Norm(3, 10)
  /\ \A k \in 2..N : WeightAt(k).n # 0

====
